---- MODULE Spec2Model ----
(***************************************************************************)
(* Model of the Tracker class of src/modules/tracker.py: the task          *)
(* registry, the stopwatch with its time-log ledger, the reminder          *)
(* scheduler and the state file.                                           *)
(*                                                                         *)
(* Conventions                                                             *)
(*  - a Python value that may be None is a sequence: None is <<>>, a value *)
(*    v is <<v>>;                                                          *)
(*  - a datetime is an integer number of seconds of naive local time,      *)
(*    second 0 being a local midnight; the ISO string that isoformat()     *)
(*    makes of it is the record [iso |-> t];                               *)
(*  - units and done of a task are counted in halves (One is 1.0), so that *)
(*    the fractional target 0.5 is the integer 1;                          *)
(*  - time_hours of a reminder is kept in seconds (hours * 3600);          *)
(*  - a dict is a record (a function on its keys), a list is a sequence.   *)
(***************************************************************************)
EXTENDS Integers, Sequences, FiniteSets, TLC

VARIABLES
    now,                  \* datetime.now(): the wall clock
    tasks,                \* self.tasks
    time_logs,            \* self.time_logs
    reminders,            \* self.reminders
    active_timer,         \* self.active_timer
    timer_source_id,      \* self.timer_source_id
    is_timer_running,     \* self.is_timer_running
    next_task_id,         \* self.next_task_id
    selected_task_id,     \* self.selected_task_id
    reminder_source_ids,  \* self.reminder_source_ids
    last_tick_time,       \* self.last_tick_time
    combo_active,         \* self.timer_combo.get_active()
    sources,              \* GLib main loop: armed timeout sources
    idle_pending,         \* GLib main loop: queued update_ui idle callbacks
    disk,                 \* the state file, its .tmp, its .bak, quarantined files
    alive,                \* FALSE once the process died inside save_state
    faults,               \* what the environment may do to a save_state call
    last,                 \* history: the last operation and what it did
    committed,            \* history: the file of the last finished save_state
    issued,               \* history: the ids add_task handed out, in order,
                          \*   a 0 marking the last restart of the process
    advances,             \* history: number of clock steps taken
    credited              \* history: the seconds that passed with the timer
                          \* Running, at most idle_cap of each clock step

vars == <<now, tasks, time_logs, reminders, active_timer, timer_source_id,
          is_timer_running, next_task_id, selected_task_id,
          reminder_source_ids, last_tick_time, combo_active, sources,
          idle_pending, disk, alive, faults, last, committed, issued,
          advances, credited>>

mem_vars == <<tasks, time_logs, reminders, active_timer, timer_source_id,
              is_timer_running, next_task_id, selected_task_id,
              reminder_source_ids, last_tick_time, combo_active, sources,
              idle_pending>>

(***************************************************************************)
(* Bounds of the model.                                                    *)
(***************************************************************************)
MaxTaskId == 2
MaxIdle == 1
MaxAdvance == 2
MaxReminders == 1

(***************************************************************************)
(* Constants of the program.                                               *)
(***************************************************************************)
Day == 86400
max_session_sec == 57600
idle_cap == 3600
One == 2

(***************************************************************************)
(* Python values.                                                          *)
(***************************************************************************)
None == <<>>
Some(x) == <<x>>
Val(o) == o[1]
Get(d, k, default) == IF k \in DOMAIN d THEN d[k] ELSE default
SetDefault(d, k, v) == IF k \in DOMAIN d THEN d ELSE d @@ (k :> v)
\* F applied to the value of v, which is computed once
With(v, F(_)) == CHOOSE r \in {F(x) : x \in {v}} : TRUE

Max(a, b) == IF a >= b THEN a ELSE b
Min(a, b) == IF a <= b THEN a ELSE b
MaxOf(S) == CHOOSE x \in S : \A y \in S : y <= x
MapSeq(F(_), s) == [i \in 1..Len(s) |-> F(s[i])]
Iso(t) == [iso |-> t]
FromIso(s) == s.iso
DateOf(t) == t \div Day
Midnight(d) == d * Day

RECURSIVE SumDur(_)
SumDur(s) == IF s = <<>> THEN 0 ELSE s[1].duration + SumDur(Tail(s))

(***************************************************************************)
(* Files.  A file is absent, holds JSON text cut short (what open(..,'w')  *)
(* and an interrupted json.dump leave), or holds a whole JSON document.    *)
(***************************************************************************)
Absent == [kind |-> "absent"]
Partial == [kind |-> "partial"]
json_dump(data) == [kind |-> "json", top |-> "dict", doc |-> data]
json_load_ok(file) == file.kind = "json"

DataOf(tk, tl, rm, at, nid, sel) ==
    [tasks |-> tk, time_logs |-> tl, reminders |-> rm, active_timer |-> at,
     next_task_id |-> nid, selected_task_id |-> sel]

Data == DataOf(tasks, time_logs, reminders, active_timer, next_task_id,
               selected_task_id)

(***************************************************************************)
(* save_state, step by step.  SaveSteps(d, data, k) is the disk after the  *)
(* first k steps of one call: 1 copy the canonical file to .bak, 2 open    *)
(* .tmp for writing, 3 dump + flush + fsync, 4 rename .tmp over the        *)
(* canonical file.                                                         *)
(***************************************************************************)
SaveDone == 4

\* mutant: the document is written over the canonical file itself
SaveStepInPlace(d, data, k) ==
    CASE k = 1 -> IF d.canon.kind # "absent" THEN [d EXCEPT !.bak = d.canon] ELSE d
      [] k = 2 -> [d EXCEPT !.canon = Partial]
      [] k = 3 -> [d EXCEPT !.canon = json_dump(data)]
      [] k = 4 -> d

SaveStep(d, data, k) ==
    CASE k = 1 -> IF d.canon.kind # "absent" THEN [d EXCEPT !.bak = d.canon] ELSE d
      [] k = 2 -> [d EXCEPT !.tmp = Partial]
      [] k = 3 -> [d EXCEPT !.tmp = json_dump(data)]
      [] k = 4 -> [d EXCEPT !.canon = d.tmp, !.tmp = Absent]

RECURSIVE SaveSteps(_, _, _)
SaveSteps(d, data, k) ==
    IF k = 0 THEN d
    ELSE With(SaveSteps(d, data, k - 1), LAMBDA d1 : SaveStep(d1, data, k))

save_state(d, data) == SaveSteps(d, data, SaveDone)

\* mutant: the step that raises has taken effect
SaveRaisesLate(d, data, e) == SaveSteps(d, data, e)

\* save_state when its step e raises: an error of the backup copy is
\* swallowed and the save goes on without it; any other error ends the call
\* with the steps before it done
SaveRaises(d, data, e) ==
    IF e = 1
    THEN With(SaveStep(d, data, 2), LAMBDA d2 :
         With(SaveStep(d2, data, 3), LAMBDA d3 : SaveStep(d3, data, 4)))
    ELSE SaveSteps(d, data, e - 1)

\* the points at which a save_state call can end: finished, or the process
\* killed after k < SaveDone steps
SaveOutcomes == IF "crash" \in faults THEN 0..SaveDone ELSE {SaveDone}

(***************************************************************************)
(* The fields of a Tracker right after the assignments of __init__, before *)
(* load_state.                                                             *)
(***************************************************************************)
NewTracker ==
    [tasks |-> <<>>, time_logs |-> <<>>, reminders |-> <<>>,
     active_timer |-> None, timer_source_id |-> None,
     is_timer_running |-> FALSE, next_task_id |-> Some(1),
     selected_task_id |-> None, reminder_source_ids |-> <<>>,
     last_tick_time |-> None, combo_active |-> -1, sources |-> {}]

(***************************************************************************)
(* _apply_loaded_state.  The result is the tracker after the call and      *)
(* whether the call raised; the assignments made before the raise stay.    *)
(***************************************************************************)
\* mutant: a task is taken without a look at units
TaskOkWithoutUnits(t) == {"id", "name", "done"} \subseteq DOMAIN t

TaskOk(t) == {"id", "name", "units", "done"} \subseteq DOMAIN t
LogOk(l) == {"task_id", "start", "duration"} \subseteq DOMAIN l
ReminderOk(r) == {"id", "name", "time_hours"} \subseteq DOMAIN r

LoadTask(t) == SetDefault(SetDefault(t, "archived", FALSE), "is_today", TRUE)
\* mutant: the stored next_fire_at is dropped on load
LoadReminderWithoutTarget(r) ==
    [SetDefault(SetDefault(SetDefault(SetDefault(SetDefault(r,
        "enabled", TRUE), "snoozed_until", None), "sound", FALSE),
        "is_relative", FALSE), "next_fire_at", None)
     EXCEPT !.next_fire_at = None]

LoadReminder(r) ==
    SetDefault(SetDefault(SetDefault(SetDefault(SetDefault(r,
        "enabled", TRUE), "snoozed_until", None), "sound", FALSE),
        "is_relative", FALSE), "next_fire_at", None)

MaxId(tk) == MaxOf({tk[i].id : i \in 1..Len(tk)})

\* mutant: next_task_id recomputed from the loaded tasks alone
LoadedNextIdFromTasks(data, tk) ==
    IF tk = <<>> THEN Some(1) ELSE Some(MaxId(tk) + 1)

\* next_task_id after lines 1313-1317; <<>> stands for a JSON null, with
\* which max() raises TypeError
LoadedNextId(data, tk) ==
    LET nid == Get(data, "next_task_id", Some(1))
    IN  IF tk = <<>> \/ nid = None THEN nid
        ELSE Some(Max(Val(nid), MaxId(tk) + 1))

apply_loaded_state(m, file) ==
    IF file.top # "dict" THEN [m |-> m, raised |-> FALSE]
    ELSE
    LET data == file.doc
        tk == MapSeq(LoadTask, SelectSeq(Get(data, "tasks", <<>>), TaskOk))
        tl == SelectSeq(Get(data, "time_logs", <<>>), LogOk)
        rm == MapSeq(LoadReminder,
                     SelectSeq(Get(data, "reminders", <<>>), ReminderOk))
    IN  [m |-> [m EXCEPT !.tasks = tk, !.time_logs = tl, !.reminders = rm,
                         !.active_timer = Get(data, "active_timer", None),
                         !.next_task_id = LoadedNextId(data, tk),
                         !.selected_task_id = Get(data, "selected_task_id", None)],
         raised |-> tk # <<>> /\ Get(data, "next_task_id", Some(1)) = None]

(***************************************************************************)
(* load_state: the tracker, the disk and the notifications after the call. *)
(***************************************************************************)
Quarantine(d, t) ==
    [d EXCEPT !.canon = Absent,
              !.corrupt = {c \in d.corrupt : c.at # t}
                          \cup {[at |-> t, file |-> d.canon]}]

load_state(m, d, t) ==
    IF d.canon.kind = "absent"
    THEN [m |-> m, disk |-> d, notes |-> <<>>, load |-> "absent"]
    ELSE
    LET parsed == json_load_ok(d.canon)
        ap == IF parsed THEN apply_loaded_state(m, d.canon)
                        ELSE [m |-> m, raised |-> TRUE]
    IN  IF ap.raised
        THEN [m |-> ap.m, disk |-> Quarantine(d, t),
              notes |-> <<"Tracker data quarantined">>, load |-> "failed"]
        ELSE [m |-> ap.m, disk |-> d, notes |-> <<>>, load |-> "loaded"]

(***************************************************************************)
(* _ensure_active_task_valid                                               *)
(***************************************************************************)
HasTask(tk, tid) == \E i \in 1..Len(tk) : tk[i].id = tid

ActiveTaskMissing(m) ==
    /\ m.active_timer # None
    /\ \/ "task_id" \notin DOMAIN Val(m.active_timer)
       \/ ~HasTask(m.tasks, Val(m.active_timer).task_id)

\* mutant: the loaded timer is kept as it is
keep_active_timer(m) == m

ensure_active_task_valid(m) ==
    IF ActiveTaskMissing(m)
    THEN [m EXCEPT !.active_timer = None, !.is_timer_running = FALSE,
                   !.selected_task_id = None, !.timer_source_id = None]
    ELSE m

(***************************************************************************)
(* update_timer_combo: the active row of the combo and selected_task_id.   *)
(***************************************************************************)
IndexOfTask(tk, tid) ==
    LET I == {i \in 1..Len(tk) : tk[i].id = tid}
    IN  IF I = {} THEN None ELSE Some((CHOOSE i \in I : \A j \in I : i <= j) - 1)

update_timer_combo(tk, at, sel) ==
    LET preferred_id == IF at # None THEN Some(Val(at).task_id)
                        ELSE IF sel # None THEN sel ELSE None
        found == IF preferred_id # None THEN IndexOfTask(tk, Val(preferred_id))
                                        ELSE None
    IN  IF found = None /\ tk # <<>>
        THEN [combo_active |-> 0, selected_task_id |-> Some(tk[1].id)]
        ELSE [combo_active |-> IF found # None THEN Val(found) ELSE -1,
              selected_task_id |-> sel]

(***************************************************************************)
(* GLib sources.  A source is [id, kind, rid, due]; an id is never that of *)
(* another live source nor one a handle of the tracker still holds.        *)
(***************************************************************************)
HeldIds(tsid, rsi) ==
    (IF tsid # None THEN {Val(tsid)} ELSE {}) \cup {rsi[r] : r \in DOMAIN rsi}

FreshId(srcs, held) ==
    LET used == {s.id : s \in srcs} \cup held
    IN  CHOOSE n \in 1..(Cardinality(used) + 1) :
            /\ n \notin used
            /\ \A k \in 1..(n - 1) : k \in used

source_remove(srcs, id) == {s \in srcs : s.id # id}

Pop(f, k) == [x \in DOMAIN f \ {k} |-> f[x]]
Put(f, k, v) == [x \in DOMAIN f \cup {k} |-> IF x = k THEN v ELSE f[x]]

(***************************************************************************)
(* schedule_reminder on the reminder rem at time t, given the sources and  *)
(* the handle dict: the reminder, the sources and the handles afterwards.  *)
(***************************************************************************)
\* mutant: the handle is dropped and the GLib source is left armed
cancel_forgets_source(srcs, rsi, rid) ==
    IF rid \in DOMAIN rsi
    THEN [sources |-> srcs, rsi |-> Pop(rsi, rid)]
    ELSE [sources |-> srcs, rsi |-> rsi]

\* mutant: cancelling a reminder that holds no handle drops every handle
cancel_or_clear(srcs, rsi, rid) ==
    IF rid \in DOMAIN rsi
    THEN [sources |-> source_remove(srcs, rsi[rid]), rsi |-> Pop(rsi, rid)]
    ELSE [sources |-> srcs, rsi |-> <<>>]

cancel_reminder_timer(srcs, rsi, rid) ==
    IF rid \in DOMAIN rsi
    THEN [sources |-> source_remove(srcs, rsi[rid]), rsi |-> Pop(rsi, rid)]
    ELSE [sources |-> srcs, rsi |-> rsi]

\* mutant: every reminder is taken for a time of day
BaseTargetDailyOnly(rem, t) ==
    LET base_target == Midnight(DateOf(t)) + rem.time_hours
    IN  IF base_target <= t THEN base_target + Day ELSE base_target

BaseTarget(rem, t) ==
    IF Get(rem, "is_relative", FALSE)
    THEN t + rem.time_hours
    ELSE LET base_target == Midnight(DateOf(t)) + rem.time_hours
         IN  IF base_target <= t THEN base_target + Day ELSE base_target

\* mutant: a stored next_fire_at in the future goes before the snooze
ReminderTargetStoredFirst(rem, t) ==
    LET snoozed_until == Get(rem, "snoozed_until", None)
        nfa == Get(rem, "next_fire_at", None)
    IN  IF nfa # None /\ FromIso(Val(nfa)) > t
        THEN [target |-> FromIso(Val(nfa)), base |-> FALSE]
        ELSE IF snoozed_until # None /\ FromIso(Val(snoozed_until)) > t
        THEN [target |-> FromIso(Val(snoozed_until)), base |-> FALSE]
        ELSE [target |-> BaseTarget(rem, t), base |-> TRUE]

\* mutant: a stored next_fire_at is never used
ReminderTargetWithoutStored(rem, t) ==
    LET snoozed_until == Get(rem, "snoozed_until", None)
    IN  IF snoozed_until # None /\ FromIso(Val(snoozed_until)) > t
        THEN [target |-> FromIso(Val(snoozed_until)), base |-> FALSE]
        ELSE [target |-> BaseTarget(rem, t), base |-> TRUE]

\* mutant: a snooze is never used
ReminderTargetWithoutSnooze(rem, t) ==
    LET nfa == Get(rem, "next_fire_at", None)
    IN  IF nfa # None /\ FromIso(Val(nfa)) > t
        THEN [target |-> FromIso(Val(nfa)), base |-> FALSE]
        ELSE [target |-> BaseTarget(rem, t), base |-> TRUE]

ReminderTarget(rem, t) ==
    LET snoozed_until == Get(rem, "snoozed_until", None)
        nfa == Get(rem, "next_fire_at", None)
    IN  IF snoozed_until # None /\ FromIso(Val(snoozed_until)) > t
        THEN [target |-> FromIso(Val(snoozed_until)), base |-> FALSE]
        ELSE IF nfa # None /\ FromIso(Val(nfa)) > t
        THEN [target |-> FromIso(Val(nfa)), base |-> FALSE]
        ELSE [target |-> BaseTarget(rem, t), base |-> TRUE]

\* mutant: the timer is always armed for one second
DelayOneSecond(target, t) == 1

\* delay_ms, in seconds
Delay(target, t) == Max(1, target - t)

schedule_reminder(rem, t, srcs, rsi, tsid) ==
    LET c == cancel_reminder_timer(srcs, rsi, rem.id)
        tg == ReminderTarget(rem, t)
        rem1 == IF tg.base THEN [rem EXCEPT !.snoozed_until = None] ELSE rem
        rem2 == [rem1 EXCEPT !.next_fire_at = Some(Iso(tg.target))]
        delay == Delay(tg.target, t)
        timer_id == FreshId(c.sources, HeldIds(tsid, c.rsi))
    IN  IF ~Get(rem, "enabled", TRUE)
        THEN [rem |-> rem, sources |-> c.sources, rsi |-> c.rsi]
        ELSE [rem |-> rem2,
              sources |-> c.sources \cup
                  {[id |-> timer_id, kind |-> "fire", rid |-> rem.id,
                    due |-> t + delay]},
              rsi |-> Put(c.rsi, rem.id, timer_id)]

\* schedule_all_reminders, from the i-th reminder on
RECURSIVE ScheduleFrom(_, _, _)
ScheduleFrom(m, i, t) ==
    IF i > Len(m.reminders) THEN m
    ELSE With(schedule_reminder(m.reminders[i], t, m.sources,
                                m.reminder_source_ids, m.timer_source_id),
              LAMBDA r :
                With([m EXCEPT !.reminders[i] = r.rem,
                               !.sources = r.sources,
                               !.reminder_source_ids = r.rsi],
                     LAMBDA m1 : ScheduleFrom(m1, i + 1, t)))

schedule_all_reminders(m, t) ==
    With([m EXCEPT !.sources = {s \in m.sources : s.kind # "fire"},
                   !.reminder_source_ids = <<>>],
         LAMBDA m0 : ScheduleFrom(m0, 1, t))

(***************************************************************************)
(* The stopwatch.                                                          *)
(***************************************************************************)
Running(at) == at # None /\ Val(at).start_time # None

\* the elapsed seconds tick() computes for the display at time t
LiveElapsed(at, t) ==
    IF Val(at).start_time # None
    THEN Get(Val(at), "elapsed", 0) + (t - FromIso(Val(Val(at).start_time)))
    ELSE Get(Val(at), "elapsed", 0)

\* mutant: the gap is reported and start_time is left where it was
tick_reports_only(at, ltt, t) ==
    LET gap == IF ltt # None THEN t - Val(ltt) ELSE 0
    IN  IF ltt # None /\ gap > idle_cap /\ Running(at)
        THEN [active_timer |-> at, last_tick_time |-> Some(t),
              notes |-> <<"Tracker paused gap trimmed">>]
        ELSE [active_timer |-> at, last_tick_time |-> Some(t), notes |-> <<>>]

\* tick(): the active timer, last_tick_time and the notifications after it
tick(at, ltt, t) ==
    LET gap == IF ltt # None THEN t - Val(ltt) ELSE 0
    IN  IF ltt # None /\ gap > idle_cap /\ Running(at)
        THEN [active_timer |-> Some([Val(at) EXCEPT
                                     !.start_time = Some(Iso(t - idle_cap))]),
              last_tick_time |-> Some(t),
              notes |-> <<"Tracker paused gap trimmed">>]
        ELSE [active_timer |-> at, last_tick_time |-> Some(t), notes |-> <<>>]

\* start_timer_loop() on the tracker m: drop the old tick source, arm a new
\* one, and run tick() once
start_timer_loop(m, t) ==
    LET srcs == IF m.timer_source_id # None
                THEN source_remove(m.sources, Val(m.timer_source_id))
                ELSE m.sources
        id == FreshId(srcs, HeldIds(None, m.reminder_source_ids))
        tk == IF m.active_timer # None
              THEN tick(m.active_timer, Some(t), t)
              ELSE [active_timer |-> m.active_timer, last_tick_time |-> Some(t),
                    notes |-> <<>>]
    IN  [m EXCEPT !.sources = srcs \cup {[id |-> id, kind |-> "tick",
                                          rid |-> 0, due |-> t + 1]},
                  !.timer_source_id = Some(id),
                  !.active_timer = tk.active_timer,
                  !.last_tick_time = tk.last_tick_time]

\* the elapsed seconds stop_timer computes before it clamps them
SessionElapsed(at, t) ==
    LET a == Val(at)
        elapsed == Max(0, Get(a, "elapsed", 0))
    IN  IF a.start_time # None
        THEN elapsed + Max(0, t - FromIso(Val(a.start_time)))
        ELSE elapsed

SessionStart(at, t) ==
    IF Val(at).start_time # None
    THEN FromIso(Val(Val(at).start_time))
    ELSE t - SessionElapsed(at, t)

\* the while loop of stop_timer and the entry that follows it
RECURSIVE SplitDays(_, _, _, _, _)
SplitDays(task_id, cur_start, end_dt, remaining, logs) ==
    IF DateOf(cur_start) < DateOf(end_dt)
    THEN With(Midnight(DateOf(cur_start) + 1),
              LAMBDA day_end :
                With(day_end - cur_start,
                     LAMBDA seg_dur :
                       With(Append(logs, [task_id |-> task_id,
                                          start |-> Iso(cur_start),
                                          end |-> Iso(day_end),
                                          duration |-> seg_dur]),
                            LAMBDA logs1 :
                              With(remaining - seg_dur,
                                   LAMBDA remaining1 :
                                     SplitDays(task_id, day_end, end_dt,
                                               remaining1, logs1)))))
    ELSE IF remaining > 0
    THEN Append(logs, [task_id |-> task_id, start |-> Iso(cur_start),
                       end |-> Iso(end_dt), duration |-> remaining])
    ELSE logs

\* mutant: the session is logged as one entry, from its start to its end
StopLogsUnsplit(at, logs, t) ==
    IF at = None THEN logs
    ELSE LET elapsed == Min(SessionElapsed(at, t), max_session_sec)
         IN  IF elapsed > 1
             THEN Append(logs, [task_id |-> Val(at).task_id,
                                start |-> Iso(SessionStart(at, t)),
                                end |-> Iso(SessionStart(at, t)
                                            + SessionElapsed(at, t)),
                                duration |-> elapsed])
             ELSE logs

\* mutant: stop_timer logs nothing
StopLogsNothing(at, logs, t) == logs

\* mutant: stop_timer starts the ledger anew
StopLogsAnew(at, logs, t) ==
    IF at = None THEN logs
    ELSE LET start_dt == SessionStart(at, t)
             end_dt == start_dt + Max(0, SessionElapsed(at, t))
             elapsed == Min(SessionElapsed(at, t), max_session_sec)
         IN  IF elapsed > 1
             THEN SplitDays(Val(at).task_id, start_dt, end_dt,
                            Max(0, elapsed), <<>>)
             ELSE logs

\* mutant: every session that is not empty is logged
StopLogsAnyElapsed(at, logs, t) ==
    IF at = None THEN logs
    ELSE LET start_dt == SessionStart(at, t)
             end_dt == start_dt + Max(0, SessionElapsed(at, t))
             elapsed == Min(SessionElapsed(at, t), max_session_sec)
         IN  IF elapsed > 0
             THEN SplitDays(Val(at).task_id, start_dt, end_dt,
                            Max(0, elapsed), logs)
             ELSE logs

\* the time logs after stop_timer
StopLogs(at, logs, t) ==
    IF at = None THEN logs
    ELSE LET start_dt == SessionStart(at, t)
             end_dt == start_dt + Max(0, SessionElapsed(at, t))
             elapsed == Min(SessionElapsed(at, t), max_session_sec)
         IN  IF elapsed > 1
             THEN SplitDays(Val(at).task_id, start_dt, end_dt,
                            Max(0, elapsed), logs)
             ELSE logs

\* the first lines of pause_timer and stop_timer: the tick source is
\* removed when a handle is held
cancel_tick(m) ==
    [m EXCEPT !.sources = IF m.timer_source_id # None
                          THEN source_remove(m.sources, Val(m.timer_source_id))
                          ELSE m.sources,
              !.timer_source_id = None]

\* the tracker after stop_timer, its final save_state left out
stop_timer_mem(m, t) ==
    [cancel_tick(m) EXCEPT
              !.time_logs = StopLogs(m.active_timer, m.time_logs, t),
              !.active_timer = None,
              !.is_timer_running = FALSE]

(***************************************************************************)
(* __init__: the tracker built from the disk d at time t.                  *)
(***************************************************************************)
SetCombo(m) ==
    With(update_timer_combo(m.tasks, m.active_timer, m.selected_task_id),
         LAMBDA cb : [m EXCEPT !.combo_active = cb.combo_active,
                               !.selected_task_id = cb.selected_task_id])

\* mutant: the tick loop is started and the running flag is left as it is
RestoreTimerLoopOnly(m, t) ==
    IF Running(m.active_timer) THEN start_timer_loop(m, t) ELSE m

RestoreTimer(m, t) ==
    IF Running(m.active_timer)
    THEN With([m EXCEPT !.is_timer_running = TRUE],
              LAMBDA m1 : start_timer_loop(m1, t))
    ELSE m

Construct(d, t) ==
    With(load_state(NewTracker, d, t), LAMBDA ld :
    With(ensure_active_task_valid(ld.m), LAMBDA m1 :
    With(SetCombo(m1), LAMBDA m2 :
    With(schedule_all_reminders(m2, t), LAMBDA m3 :
    With(RestoreTimer(m3, t), LAMBDA m4 :
        [m |-> m4, disk |-> ld.disk, load |-> ld.load,
         notes |-> ld.notes \o (IF ActiveTaskMissing(ld.m)
                                THEN <<"Tracker">> ELSE <<>>)])))))

DataM(m) == DataOf(m.tasks, m.time_logs, m.reminders, m.active_timer,
                   m.next_task_id, m.selected_task_id)

(***************************************************************************)
(* The state machine.                                                      *)
(***************************************************************************)
Cur ==
    [tasks |-> tasks, time_logs |-> time_logs, reminders |-> reminders,
     active_timer |-> active_timer, timer_source_id |-> timer_source_id,
     is_timer_running |-> is_timer_running, next_task_id |-> next_task_id,
     selected_task_id |-> selected_task_id,
     reminder_source_ids |-> reminder_source_ids,
     last_tick_time |-> last_tick_time, combo_active |-> combo_active,
     sources |-> sources]

SetMem(m) ==
    /\ tasks' = m.tasks
    /\ time_logs' = m.time_logs
    /\ reminders' = m.reminders
    /\ active_timer' = m.active_timer
    /\ timer_source_id' = m.timer_source_id
    /\ is_timer_running' = m.is_timer_running
    /\ next_task_id' = m.next_task_id
    /\ selected_task_id' = m.selected_task_id
    /\ reminder_source_ids' = m.reminder_source_ids
    /\ last_tick_time' = m.last_tick_time
    /\ combo_active' = m.combo_active
    /\ sources' = m.sources

\* what `last` records of an operation; of a reminder operation: rid the
\* reminder's id, before the reminder as the handler found it, arg the
\* reminder as the handler passed it to schedule_reminder; of start_timer:
\* before the active timer as the handler found it
Op(name, notes) ==
    [op |-> name, notes |-> notes, appended |-> 0, elapsed |-> 0,
     load |-> "", file |-> Absent, rid |-> 0, before |-> None, arg |-> None]

\* A handler returns with the tracker m, idle callbacks queued, the disk d
\* and c the file of the last save_state that finished; k < SaveDone says
\* that the process was killed inside the handler's save_state, and the
\* memory of the process is gone.
Commit(m, idle, d, c, k, l) ==
    /\ \E m1 \in {IF k = SaveDone THEN m ELSE NewTracker} : SetMem(m1)
    /\ idle_pending' = (IF k = SaveDone THEN idle ELSE 0)
    /\ disk' = d
    /\ committed' = c
    /\ alive' = (k = SaveDone)
    /\ last' = (IF k = SaveDone THEN l ELSE Op("killed", <<>>))
    /\ UNCHANGED <<now, faults, advances, credited>>

\* the handler ends with save_state(); under the fault "io" a step e of
\* the save can raise, which save_state catches and prints
CommitSaved(m, idle, l) ==
    \/ \E m1 \in {m}, k \in SaveOutcomes :
        Commit(m1, idle, SaveSteps(disk, DataM(m1), k),
               IF k = SaveDone THEN json_dump(DataM(m1)) ELSE committed, k, l)
    \/ /\ "io" \in faults
       /\ \E m1 \in {m}, e \in 1..SaveDone :
            Commit(m1, idle, SaveRaises(disk, DataM(m1), e),
                   IF e = 1 THEN json_dump(DataM(m1)) ELSE committed,
                   SaveDone,
                   IF e = 1 THEN l
                   ELSE [l EXCEPT !.notes = Append(@, "Save error")])

\* the handler ends without a save_state()
CommitUnsaved(m, idle, l) == Commit(m, idle, disk, committed, SaveDone, l)

EmptyDisk(f) == [canon |-> f, tmp |-> Absent, bak |-> Absent, corrupt |-> {}]

InitWith(files, times, fl) ==
    \E f \in files, t \in times :
        \E c \in {Construct(EmptyDisk(f), t)} :
            /\ now = t
            /\ tasks = c.m.tasks
            /\ time_logs = c.m.time_logs
            /\ reminders = c.m.reminders
            /\ active_timer = c.m.active_timer
            /\ timer_source_id = c.m.timer_source_id
            /\ is_timer_running = c.m.is_timer_running
            /\ next_task_id = c.m.next_task_id
            /\ selected_task_id = c.m.selected_task_id
            /\ reminder_source_ids = c.m.reminder_source_ids
            /\ last_tick_time = c.m.last_tick_time
            /\ combo_active = c.m.combo_active
            /\ sources = c.m.sources
            /\ idle_pending = 0
            /\ disk = c.disk
            /\ alive = TRUE
            /\ faults = fl
            /\ last = [Op("init", c.notes) EXCEPT !.load = c.load, !.file = f]
            /\ committed = f
            /\ issued = <<>>
            /\ advances = 0
            /\ credited = 0

IssuedIds == SelectSeq(issued, LAMBDA x : x # 0)

\* the process is stopped (or was killed) and a new one is constructed
Restart ==
    \E c \in {Construct(disk, now)} :
        /\ SetMem(c.m)
        /\ idle_pending' = 0
        /\ disk' = c.disk
        /\ alive' = TRUE
        /\ last' = [Op("init", c.notes) EXCEPT !.load = c.load,
                                               !.file = disk.canon]
        /\ issued' = (IF IssuedIds # <<>> THEN Append(IssuedIds, 0) ELSE issued)
        /\ UNCHANGED <<now, faults, committed, advances, credited>>

\* the wall clock moves by d seconds while no handler runs (the host may be
\* suspended meanwhile)
Advance(d) ==
    /\ advances < MaxAdvance
    /\ now + d >= 0
    /\ now' = now + d
    /\ advances' = advances + 1
    /\ credited' = (IF alive /\ Running(active_timer)
                    THEN credited + Min(d, idle_cap) ELSE credited)
    /\ last' = Op("Advance", <<>>)
    /\ UNCHANGED <<mem_vars, disk, alive, faults, committed, issued>>

(***************************************************************************)
(* Task registry.                                                          *)
(***************************************************************************)
strip(s) == IF s = " " THEN "" ELSE s

\* float(): the texts the model types into units_entry; <<>> is ValueError
float(s) ==
    CASE s = "-1" -> Some(0 - One)
      [] s = "0" -> Some(0)
      [] s = "0.5" -> Some(One \div 2)
      [] s = "1" -> Some(One)
      [] OTHER -> None

ParseUnits(text) ==
    LET f == float(IF strip(text) = "" THEN "1" ELSE strip(text))
    IN  IF f = None THEN One ELSE Val(f)

add_task(name, text) ==
    /\ alive
    /\ IF strip(name) = "" \/ next_task_id = None
       THEN \* the early return: nothing is changed and nothing is saved
            CommitUnsaved(Cur, idle_pending, Op("add_task ignored", <<>>))
            /\ issued' = issued
       ELSE /\ Val(next_task_id) <= MaxTaskId
            /\ LET tid == Val(next_task_id)
                   tk == Append(tasks,
                           [id |-> tid, name |-> strip(name),
                            units |-> ParseUnits(text), done |-> 0,
                            created |-> Iso(now), archived |-> FALSE,
                            is_today |-> TRUE])
                   cb == update_timer_combo(tk, active_timer, selected_task_id)
                   m == [Cur EXCEPT !.tasks = tk,
                                    !.next_task_id = Some(tid + 1),
                                    !.combo_active = cb.combo_active,
                                    !.selected_task_id = cb.selected_task_id]
               IN  /\ CommitSaved(m, idle_pending, Op("add_task", <<>>))
                   /\ issued' = (IF alive' THEN Append(issued, tid) ELSE issued)

\* mutant: the callback is never queued
idle_add_dropped(pending) == pending

\* GLib.idle_add(update_ui): one more callback waits for the main loop
idle_add(pending) == pending + 1

\* the first task with this id, as the for loop with its break finds it
FirstTask(tk, tid) == Val(IndexOfTask(tk, tid)) + 1

inc_task(tid) ==
    /\ alive
    /\ idle_pending < MaxIdle
    /\ LET i == FirstTask(tasks, tid)
           done == Min(tasks[i].done + One, tasks[i].units)
           completed == HasTask(tasks, tid) /\ done >= tasks[i].units
           m == IF HasTask(tasks, tid)
                THEN [Cur EXCEPT !.tasks[i].done = done] ELSE Cur
       IN  CommitUnsaved(m, idle_add(idle_pending),
               Op("inc_task", IF completed THEN <<"Task Complete!">> ELSE <<>>))
    /\ issued' = issued

dec_task(tid) ==
    /\ alive
    /\ idle_pending < MaxIdle
    /\ LET i == FirstTask(tasks, tid)
           m == IF HasTask(tasks, tid)
                THEN [Cur EXCEPT !.tasks[i].done = Max(tasks[i].done - One, 0)]
                ELSE Cur
       IN  CommitUnsaved(m, idle_add(idle_pending), Op("dec_task", <<>>))
    /\ issued' = issued

\* the update_ui callback that inc_task and dec_task hand to GLib.idle_add
update_ui ==
    /\ alive
    /\ idle_pending > 0
    /\ CommitSaved(Cur, idle_pending - 1, Op("update_ui", <<>>))
    /\ issued' = issued

del_task(tid) ==
    /\ alive
    /\ \E timed \in {active_timer # None /\ Val(active_timer).task_id = tid},
          ms \in {stop_timer_mem(Cur, now)},
          tk \in {SelectSeq(tasks, LAMBDA t : t.id # tid)} :
        \E m1 \in {IF timed THEN [ms EXCEPT !.selected_task_id = None]
                             ELSE Cur} :
        \E cb \in {update_timer_combo(tk, m1.active_timer,
                                       m1.selected_task_id)} :
        \E m2 \in {[m1 EXCEPT !.tasks = tk, !.combo_active = cb.combo_active,
                               !.selected_task_id = cb.selected_task_id]},
           l \in {[Op("del_task", <<>>) EXCEPT
                      !.appended = Len(m1.time_logs) - Len(time_logs),
                      !.elapsed = IF timed
                                  THEN SessionElapsed(active_timer, now)
                                  ELSE 0]} :
            IF timed
            THEN \* stop_timer saved once already, before selected_task_id
                 \* was cleared
                 \E k1 \in SaveOutcomes :
                 \E d1 \in {SaveSteps(disk, DataM(ms), k1)} :
                     IF k1 < SaveDone
                     THEN Commit(m2, idle_pending, d1, committed, k1, l)
                     ELSE \E k2 \in SaveOutcomes :
                             Commit(m2, idle_pending,
                                    SaveSteps(d1, DataM(m2), k2),
                                    IF k2 = SaveDone THEN json_dump(DataM(m2))
                                                     ELSE json_dump(DataM(ms)),
                                    k2, l)
            ELSE CommitSaved(m2, idle_pending, l)
    /\ issued' = issued

\* the user picks row idx of the combo: on_timer_task_changed
on_timer_task_changed(idx) ==
    /\ alive
    /\ ~is_timer_running
    /\ idx >= 0 /\ idx < Len(tasks)
    /\ idx # combo_active
    /\ LET m == [Cur EXCEPT !.combo_active = idx,
                            !.selected_task_id = Some(tasks[idx + 1].id)]
       IN  CommitSaved(m, idle_pending, Op("on_timer_task_changed", <<>>))
    /\ issued' = issued

(***************************************************************************)
(* Stopwatch operations.                                                   *)
(***************************************************************************)
\* mutant: every start begins a new timer
StartedTimerFromZero(at, task_id, t) ==
    Some([task_id |-> task_id, start_time |-> Some(Iso(t)), elapsed |-> 0])

\* mutant: a timer that exists keeps its task
StartedTimerKeepsTask(at, task_id, t) ==
    IF at # None
    THEN Some([Val(at) EXCEPT !.start_time = Some(Iso(t))])
    ELSE Some([task_id |-> task_id, start_time |-> Some(Iso(t)),
               elapsed |-> 0])

\* the active timer after start_timer at time t on the task task_id
StartedTimer(at, task_id, t) ==
    IF at # None
    THEN Some([Val(at) EXCEPT !.start_time = Some(Iso(t)),
                              !.task_id = task_id])
    ELSE Some([task_id |-> task_id, start_time |-> Some(Iso(t)),
               elapsed |-> 0])

start_timer ==
    /\ alive
    /\ IF combo_active < 0 \/ combo_active >= Len(tasks)
       THEN CommitUnsaved(Cur, idle_pending, Op("start_timer ignored", <<>>))
       ELSE LET task == tasks[combo_active + 1]
                at == StartedTimer(active_timer, task.id, now)
            IN  \E m0 \in {[Cur EXCEPT !.selected_task_id = Some(task.id),
                                        !.active_timer = at,
                                        !.is_timer_running = TRUE,
                                        !.last_tick_time = Some(now)]} :
                    CommitSaved(start_timer_loop(m0, now), idle_pending,
                                [Op("start_timer", <<>>) EXCEPT
                                    !.before = active_timer])
    /\ issued' = issued

\* mutant: the pause keeps only the time since the last start
PausedTimerSinceStart(at, t) ==
    IF Running(at)
    THEN Some([Val(at) EXCEPT
                  !.elapsed = t - FromIso(Val(Val(at).start_time)),
                  !.start_time = None])
    ELSE at

\* the active timer after pause_timer at time t
PausedTimer(at, t) ==
    IF Running(at)
    THEN Some([Val(at) EXCEPT
                  !.elapsed = Val(at).elapsed
                              + (t - FromIso(Val(Val(at).start_time))),
                  !.start_time = None])
    ELSE at

pause_timer ==
    /\ alive
    /\ LET at == PausedTimer(active_timer, now)
           m == [cancel_tick(Cur) EXCEPT
                    !.active_timer = at,
                    !.is_timer_running = FALSE,
                    !.last_tick_time = None]
       IN  CommitSaved(m, idle_pending, Op("pause_timer", <<>>))
    /\ issued' = issued

stop_timer ==
    /\ alive
    /\ \E m \in {stop_timer_mem(Cur, now)} :
        CommitSaved(m, idle_pending,
            [Op("stop_timer", <<>>) EXCEPT
                !.appended = Len(m.time_logs) - Len(time_logs),
                !.elapsed = IF active_timer # None
                            THEN SessionElapsed(active_timer, now) ELSE 0])
    /\ issued' = issued

\* a tick source of the main loop fires
tick_fires ==
    /\ alive
    /\ \E s \in sources :
        /\ s.kind = "tick"
        /\ IF active_timer = None
           THEN CommitUnsaved([Cur EXCEPT !.sources = sources \ {s}],
                              idle_pending, Op("tick", <<>>))
           ELSE LET tk == tick(active_timer, last_tick_time, now)
                IN  CommitUnsaved([Cur EXCEPT
                                      !.active_timer = tk.active_timer,
                                      !.last_tick_time = tk.last_tick_time],
                                  idle_pending, Op("tick", tk.notes))
    /\ issued' = issued

(***************************************************************************)
(* Reminders.  The text of the time entry is kept as time_str.split(':').  *)
(***************************************************************************)
\* int(): the texts the model types into reminder_time; <<>> is ValueError
int(s) ==
    CASE s = "0" -> Some(0)
      [] s = "00" -> Some(0)
      [] s = "10" -> Some(10)
      [] s = "12" -> Some(12)
      [] s = "15" -> Some(15)
      [] s = "-30" -> Some(0 - 30)
      [] OTHER -> None

\* parse_time_input, in seconds; a bare number is minutes (all bare numbers
\* of the model are whole, float() and int() agree on them)
parse_time_input(parts) ==
    IF Len(parts) > 1
    THEN LET h == int(parts[1])
             m == int(parts[2])
         IN  IF h = None \/ m = None THEN None
             ELSE Some(Val(h) * 3600 + Val(m) * 60)
    ELSE LET minutes == int(parts[1])
         IN  IF minutes = None THEN None ELSE Some(Val(minutes) * 60)

\* add_reminder's test for a countdown
IsRelativeText(parts) ==
    IF Len(parts) > 1 THEN parts[1] \in {"", "0", "00"} ELSE TRUE

\* index of the first reminder with id rid, 0 when there is none
FirstReminder(rm, rid) ==
    IF \E i \in 1..Len(rm) : rm[i].id = rid
    THEN CHOOSE i \in 1..Len(rm) :
            /\ rm[i].id = rid
            /\ \A k \in 1..(i - 1) : rm[k].id # rid
    ELSE 0

\* schedule_reminder(self.reminders[i]) at time t
ScheduleAt(m, i, t) ==
    With(schedule_reminder(m.reminders[i], t, m.sources,
                           m.reminder_source_ids, m.timer_source_id),
         LAMBDA r : [m EXCEPT !.reminders[i] = r.rem,
                              !.sources = r.sources,
                              !.reminder_source_ids = r.rsi])

\* mutant: the handler does not cancel the timer
CancelAtForgotten(m, rid) == m

\* self.cancel_reminder_timer(rid)
CancelAt(m, rid) ==
    With(cancel_reminder_timer(m.sources, m.reminder_source_ids, rid),
         LAMBDA c : [m EXCEPT !.sources = c.sources,
                              !.reminder_source_ids = c.rsi])

NewReminder(rid, name, hours, is_relative, t) ==
    [id |-> rid, name |-> name, time_hours |-> hours, created |-> Iso(t),
     enabled |-> TRUE, snoozed_until |-> None, sound |-> FALSE,
     is_relative |-> is_relative, next_fire_at |-> None]

\* the reminder with id rid as a handler finds it, None when there is none
Found(rm, rid) ==
    IF FirstReminder(rm, rid) = 0 THEN None
    ELSE Some(rm[FirstReminder(rm, rid)])

ReminderOp(name, notes, rid, before, arg) ==
    [Op(name, notes) EXCEPT !.rid = rid, !.before = before, !.arg = arg]

add_reminder(name, parts) ==
    /\ alive
    /\ Len(reminders) < MaxReminders
    /\ IF strip(name) = "" \/ parts = <<"">>
       THEN CommitUnsaved(Cur, idle_pending, Op("add_reminder ignored", <<>>))
       ELSE IF parse_time_input(parts) = None
       THEN CommitUnsaved(Cur, idle_pending,
                          Op("add_reminder invalid", <<"Invalid time">>))
       ELSE \E rid \in {IF reminders = <<>> THEN 1 ELSE MaxId(reminders) + 1} :
            \E m0 \in {[Cur EXCEPT !.reminders =
                           Append(@, NewReminder(rid, strip(name),
                                      Val(parse_time_input(parts)),
                                      IsRelativeText(parts), now))]} :
            \E m1 \in {ScheduleAt(m0, Len(m0.reminders), now)} :
                CommitSaved(m1, idle_pending,
                    ReminderOp("add_reminder", <<>>, rid, None,
                               Some(m0.reminders[Len(m0.reminders)])))
    /\ issued' = issued

del_reminder(rid) ==
    /\ alive
    /\ \E m0 \in {[Cur EXCEPT !.reminders =
                      SelectSeq(@, LAMBDA r : r.id # rid)]} :
       \E m1 \in {CancelAt(m0, rid)} :
           CommitSaved(m1, idle_pending,
               ReminderOp("del_reminder", <<>>, rid, Found(reminders, rid),
                          None))
    /\ issued' = issued

toggle_reminder(rid) ==
    /\ alive
    /\ \E i \in {FirstReminder(reminders, rid)} :
       \E m0 \in {IF i = 0 THEN Cur
                  ELSE [Cur EXCEPT !.reminders[i].enabled =
                           ~Get(reminders[i], "enabled", TRUE)]} :
       \E on \in {i # 0 /\ m0.reminders[i].enabled} :
       \E m1 \in {IF i = 0 THEN m0
                  ELSE IF on THEN ScheduleAt(m0, i, now)
                  ELSE CancelAt(m0, rid)} :
           CommitSaved(m1, idle_pending,
               ReminderOp("toggle_reminder", <<>>, rid, Found(reminders, rid),
                          IF on THEN Some(m0.reminders[i]) ELSE None))
    /\ issued' = issued

snooze_reminder(rid, minutes) ==
    /\ alive
    /\ \E i \in {FirstReminder(reminders, rid)} :
       \E m0 \in {IF i = 0 THEN Cur
                  ELSE [Cur EXCEPT !.reminders[i].snoozed_until =
                           Some(Iso(now + minutes * 60))]} :
       \E m1 \in {IF i = 0 THEN m0 ELSE ScheduleAt(m0, i, now)} :
           CommitSaved(m1, idle_pending,
               ReminderOp("snooze_reminder", <<>>, rid, Found(reminders, rid),
                          Found(m0.reminders, rid)))
    /\ issued' = issued

dismiss_reminder(rid) ==
    /\ alive
    /\ \E i \in {FirstReminder(reminders, rid)} :
       \E m0 \in {IF i = 0 THEN Cur
                  ELSE [Cur EXCEPT !.reminders[i].snoozed_until = None]} :
       \E m1 \in {IF i = 0 THEN m0 ELSE ScheduleAt(m0, i, now)} :
           CommitSaved(m1, idle_pending,
               ReminderOp("dismiss_reminder", <<>>, rid, Found(reminders, rid),
                          Found(m0.reminders, rid)))
    /\ issued' = issued

\* the main loop runs the fire() callback of a reminder timer that is due;
\* the source is spent (fire returns False) and fire() arms a new one
fire ==
    /\ alive
    /\ \E s \in sources :
        /\ s.kind = "fire"
        /\ s.due <= now
        /\ \E i \in {FirstReminder(reminders, s.rid)} :
            /\ i # 0
            /\ \E m0 \in {[Cur EXCEPT !.reminders[i].snoozed_until = None,
                                      !.reminders[i].next_fire_at = None,
                                      !.sources = sources \ {s}]} :
               \E m1 \in {ScheduleAt(m0, i, now)} :
                   CommitUnsaved(m1, idle_pending,
                       ReminderOp("fire", <<"Reminder">>, s.rid,
                                  Found(reminders, s.rid),
                                  Some(m0.reminders[i])))
    /\ issued' = issued

(***************************************************************************)
(* State files found at the first start.                                   *)
(***************************************************************************)
TaskRec(id, units, done) ==
    [id |-> id, name |-> "a", units |-> units, done |-> done,
     created |-> Iso(0), archived |-> FALSE, is_today |-> TRUE]

LogRec(tid, start, end) ==
    [task_id |-> tid, start |-> Iso(start), end |-> Iso(end),
     duration |-> end - start]

ReminderRec(id, secs, rel) ==
    [id |-> id, name |-> "r", time_hours |-> secs, created |-> Iso(0),
     enabled |-> TRUE, snoozed_until |-> None, sound |-> FALSE,
     is_relative |-> rel, next_fire_at |-> None]

\* a file the program wrote: task 1 was timed and then deleted, a reminder
\* is set
FileSaved ==
    json_dump(DataOf(<<>>, <<LogRec(1, 600, 1200)>>,
                     <<ReminderRec(1, 900, TRUE)>>, None, Some(2), Some(1)))

\* one task without units between two well-formed ones, the second of them
\* without its optional fields; the same for a log and a reminder
FileMalformed ==
    json_dump(DataOf(
        <<TaskRec(1, One, 0),
          [id |-> 2, name |-> "a", done |-> 0],
          [id |-> 3, name |-> "a", units |-> One, done |-> 0]>>,
        <<[task_id |-> 1, start |-> Iso(600), end |-> Iso(1200)],
          [task_id |-> 1, start |-> Iso(600), duration |-> 600],
          LogRec(3, 1200, 1800)>>,
        <<[id |-> 1, name |-> "r"],
          [id |-> 2, name |-> "r", time_hours |-> 900],
          ReminderRec(3, 34200, FALSE)>>,
        None, Some(4), None))

\* next_task_id is null: max() raises after the collections were assigned
FileNullNextId ==
    json_dump(DataOf(<<TaskRec(1, One, 0)>>, <<LogRec(1, 600, 1200)>>,
                     <<ReminderRec(1, 900, TRUE)>>, None, None, Some(1)))

\* one task and nothing else
FileOneTask ==
    json_dump(DataOf(<<TaskRec(1, One, 0)>>, <<>>, <<>>, None, Some(2), Some(1)))

\* task 2 was being timed when its record was lost: the timer and one log
\* entry still name it
FileDangling ==
    json_dump(DataOf(<<TaskRec(1, One, 0)>>, <<LogRec(2, 0, 600)>>, <<>>,
                     Some([task_id |-> 2, start_time |-> Some(Iso(600)),
                           elapsed |-> 0]),
                     Some(3), Some(2)))

\* two tasks, the first of them selected
FileTwoTasks ==
    json_dump(DataOf(<<TaskRec(1, One, 0), TaskRec(2, One, 0)>>, <<>>, <<>>,
                     None, Some(3), Some(1)))

\* a JSON document that is not an object
FileList == [kind |-> "json", top |-> "list", doc |-> <<>>]

Names == {" ", "a"}
UnitsTexts == {"", "x", "-1", "0", "0.5"}
TaskIds == 1..MaxTaskId

(***************************************************************************)
(* Specifications.                                                         *)
(***************************************************************************)
Noon == 12 * 3600

\* add_task with every kind of target, inc_task and dec_task
InitUnits == InitWith({Absent}, {Noon}, {})

NextUnits ==
    \/ \E name \in Names, text \in UnitsTexts : add_task(name, text)
    \/ \E tid \in TaskIds : inc_task(tid)
    \/ \E tid \in TaskIds : dec_task(tid)
    \/ update_ui

SpecUnits == InitUnits /\ [][NextUnits]_vars

\* the main loop runs a queued idle callback once it is idle
SpecUnitsFair == SpecUnits /\ WF_vars(update_ui)

\* the task registry with the idle callbacks and restarts, the clock standing
TaskTexts == {"", "0.5"}

InitTasks == InitWith({Absent}, {Noon}, {})

NextTasks ==
    \/ \E name \in Names, text \in TaskTexts : add_task(name, text)
    \/ \E tid \in TaskIds : inc_task(tid)
    \/ \E tid \in TaskIds : dec_task(tid)
    \/ \E tid \in TaskIds : del_task(tid)
    \/ update_ui
    \/ Restart

SpecTasks == InitTasks /\ [][NextTasks]_vars

\* the state file and what start-up makes of it, with the operations that
\* fill the three collections
FileTexts == {""}
StoreJumps == {1200}

InitStore == InitWith({FileSaved, FileMalformed}, {Noon}, {})

NextStore ==
    \/ \E text \in FileTexts : add_task("a", text)
    \/ \E tid \in TaskIds : del_task(tid)
    \/ start_timer
    \/ stop_timer
    \/ \E d \in StoreJumps : Advance(d)
    \/ Restart

SpecStore == InitStore /\ [][NextStore]_vars

\* start-up on every kind of state file, and the registry operations
InitLoad ==
    InitWith({Absent, Partial, FileList, FileSaved, FileMalformed,
              FileNullNextId}, {Noon}, {})

NextLoad ==
    \/ \E text \in FileTexts : add_task("a", text)
    \/ \E tid \in TaskIds : del_task(tid)
    \/ \E d \in StoreJumps : Advance(d)
    \/ Restart

SpecLoad == InitLoad /\ [][NextLoad]_vars

\* the stopwatch on one task, the clock moving
StartTimes == {21600, 85800}
Jumps == {1, 1200, 7200, 64800}

InitTimer == InitWith({Absent, FileOneTask}, StartTimes, {})

NextTimer ==
    \/ start_timer
    \/ pause_timer
    \/ stop_timer
    \/ tick_fires
    \/ \E d \in Jumps : Advance(d)
    \/ Restart

SpecTimer == InitTimer /\ [][NextTimer]_vars

\* one process: tasks added and deleted while the stopwatch runs on them
SessionJumps == {1200}

InitSession == InitWith({FileDangling, FileOneTask}, {Noon}, {})

NextSession ==
    \/ add_task("a", "")
    \/ \E tid \in TaskIds : del_task(tid)
    \/ start_timer
    \/ pause_timer
    \/ stop_timer
    \/ tick_fires
    \/ \E d \in SessionJumps : Advance(d)

SpecSession == InitSession /\ [][NextSession]_vars

\* the reminders: added, switched, snoozed, dismissed and deleted while the
\* clock moves and their timers fire, across restarts
ReminderIds == 1..MaxReminders
TimeTexts == {<<"">>, <<"x">>, <<"15">>, <<"0", "15">>, <<"12", "00">>,
              <<"-30", "00">>}
SnoozeMinutes == {10}
ReminderJumps == {600, Day}

InitReminders == InitWith({Absent}, {Noon}, {})

NextReminders ==
    \/ \E parts \in TimeTexts : add_reminder("r", parts)
    \/ \E rid \in ReminderIds : del_reminder(rid)
    \/ \E rid \in ReminderIds : toggle_reminder(rid)
    \/ \E rid \in ReminderIds, minutes \in SnoozeMinutes :
           snooze_reminder(rid, minutes)
    \/ \E rid \in ReminderIds : dismiss_reminder(rid)
    \/ fire
    \/ \E d \in ReminderJumps : Advance(d)
    \/ Restart

SpecReminders == InitReminders /\ [][NextReminders]_vars

\* the same under a main loop that dispatches a timer that is due
SpecRemindersFair == SpecReminders /\ WF_vars(fire)

\* the task registry of one process on a disk whose writes can fail
InitIO == InitWith({Absent, FileOneTask}, {Noon}, {"io"})

NextIO ==
    \/ add_task("a", "")
    \/ \E tid \in TaskIds : del_task(tid)
    \/ \E tid \in TaskIds : inc_task(tid)
    \/ update_ui

SpecIO == InitIO /\ [][NextIO]_vars

\* the stopwatch with two tasks to choose from in the dropdown
InitSelect == InitWith({FileTwoTasks}, {Noon}, {})

NextSelect ==
    \/ \E idx \in 0..1 : on_timer_task_changed(idx)
    \/ start_timer
    \/ pause_timer
    \/ stop_timer
    \/ tick_fires
    \/ \E d \in SessionJumps : Advance(d)

SpecSelect == InitSelect /\ [][NextSelect]_vars

\* the stopwatch while the wall clock is set back (a clock correction)
SkewJumps == {-1200, 600}

InitSkew == InitWith({FileOneTask}, {Noon}, {})

NextSkew ==
    \/ start_timer
    \/ pause_timer
    \/ stop_timer
    \/ tick_fires
    \/ \E d \in SkewJumps : Advance(d)

SpecSkew == InitSkew /\ [][NextSkew]_vars

\* the same, with a process that can be killed at any step of save_state
InitCrash == InitWith({Absent, FileSaved}, {Noon}, {"crash"})

NextCrash ==
    \/ add_task("a", "")
    \/ \E tid \in TaskIds : inc_task(tid)
    \/ \E tid \in TaskIds : del_task(tid)
    \/ update_ui
    \/ Restart

SpecCrash == InitCrash /\ [][NextCrash]_vars

(***************************************************************************)
(* Claims.                                                                 *)
(***************************************************************************)

\* C1: every task has 0 <= done <= units in every reachable state, whatever
\* target add_task took from units_entry (zero, negative or fractional) and
\* whatever inc_task and dec_task calls followed.
C1_DoneWithinUnits ==
    alive => \A i \in 1..Len(tasks) :
                0 <= tasks[i].done /\ tasks[i].done <= tasks[i].units

\* C2: over add_task, del_task, save_state and restarts, every id add_task
\* hands out is strictly greater than every id it handed out before.
C2_IdsStrictlyIncrease ==
    \A i, j \in 1..Len(IssuedIds) : i < j => IssuedIds[i] < IssuedIds[j]

\* C2 witness: id 1 was handed out and its task deleted, the process was
\* restarted, and add_task then handed out id 2.
C2_Witness ==
    /\ alive
    /\ issued = <<1, 0, 2>>
    /\ last.op = "add_task"
    /\ Len(tasks) = 1 /\ tasks[1].id = 2

\* C3: with a process that can be killed between any two steps of
\* save_state, the canonical state file is at every moment absent or the
\* whole document of the last save_state that finished (at first the file
\* found at the first start): never a partly written one.
C3_CanonicalNeverPartial ==
    \/ disk.canon = Absent
    \/ disk.canon.kind = "json" /\ disk.canon = committed

\* C3 witness: the process was killed after it opened the temporary file and
\* before it finished writing it, over an existing canonical file.
C3_Witness ==
    /\ ~alive
    /\ disk.tmp = Partial
    /\ disk.canon.kind = "json"
    /\ disk.bak = disk.canon

\* what save_state writes of the current state, read back by load_state in
\* a new process
Reloaded == load_state(NewTracker, save_state(disk, Data), now).m

\* C4: when a mutating operation or callback has returned and its process
\* is alive (no save was cut short), the canonical file holds the tasks,
\* time_logs, reminders, active_timer and next_task_id of the memory.  Of
\* the ticks, only one that trimmed an idle gap changes what is saved.
MutatingOps ==
    {"add_task", "inc_task", "dec_task", "del_task", "start_timer",
     "pause_timer", "stop_timer", "tick"}

C4_DiskEqualsMemoryAfterOperation ==
    (/\ alive
     /\ last.op \in MutatingOps
     /\ last.op = "tick" => last.notes # <<>>) =>
        /\ disk.canon.kind = "json"
        /\ disk.canon.top = "dict"
        /\ disk.canon.doc.tasks = tasks
        /\ disk.canon.doc.time_logs = time_logs
        /\ disk.canon.doc.reminders = reminders
        /\ disk.canon.doc.active_timer = active_timer
        /\ disk.canon.doc.next_task_id = next_task_id

\* C5: in every reachable state, save_state, a crash and load_state in a new
\* process give back the same tasks, time logs and reminders (records,
\* order, field values) and the same next_task_id.
C5_SaveLoadRoundTrip ==
    alive => /\ Reloaded.tasks = tasks
             /\ Reloaded.time_logs = time_logs
             /\ Reloaded.reminders = reminders
             /\ Reloaded.next_task_id = next_task_id

\* C5 witness: a stop_timer call has just logged a session and saved, with
\* tasks, time logs and reminders all present, the task with id 1 deleted.
C5_Witness ==
    /\ alive
    /\ last.op = "stop_timer" /\ last.appended > 0
    /\ tasks # <<>> /\ reminders # <<>>
    /\ tasks[1].id > 1
    /\ disk.canon = json_dump(Data)

\* the records of a list of the file that have all the keys of req
Kept(list, req) == SelectSeq(list, LAMBDA r : req \subseteq DOMAIN r)

\* record m is record f with the keys of dflt that f lacks added, but for
\* the keys of free
Completes(m, f, dflt, free) ==
    /\ DOMAIN m = DOMAIN f \cup DOMAIN dflt
    /\ \A k \in DOMAIN m \ free :
          m[k] = IF k \in DOMAIN f THEN f[k] ELSE dflt[k]

\* C6: a load that succeeds keeps, in their order, exactly the records of
\* tasks, time_logs and reminders that have their required fields, with the
\* optional fields that have a default set to it; the other records are
\* dropped.  (schedule_all_reminders then sets next_fire_at and may clear
\* snoozed_until.)
C6_RecordsValidatedOneByOne ==
    (alive /\ last.op = "init" /\ last.load = "loaded" /\ last.file.top = "dict") =>
        LET doc == last.file.doc
            tk == Kept(doc.tasks, {"id", "name", "units", "done"})
            tl == Kept(doc.time_logs, {"task_id", "start", "duration"})
            rm == Kept(doc.reminders, {"id", "name", "time_hours"})
        IN  /\ Len(tasks) = Len(tk)
            /\ \A i \in 1..Len(tk) :
                  Completes(tasks[i], tk[i],
                            [archived |-> FALSE, is_today |-> TRUE], {})
            /\ time_logs = tl
            /\ Len(reminders) = Len(rm)
            /\ \A i \in 1..Len(rm) :
                  Completes(reminders[i], rm[i],
                            [enabled |-> TRUE, snoozed_until |-> None,
                             sound |-> FALSE, is_relative |-> FALSE,
                             next_fire_at |-> None],
                            {"next_fire_at", "snoozed_until"})

\* C6 witness: the file with one malformed task between two well-formed
\* ones was loaded, and exactly the two well-formed tasks are there.
C6_Witness ==
    /\ alive
    /\ last.op = "init" /\ last.load = "loaded"
    /\ last.file = FileMalformed
    /\ Len(last.file.doc.tasks) = 3
    /\ Len(tasks) = 2 /\ tasks[1].id = 1 /\ tasks[2].id = 3
    /\ Len(time_logs) = 2 /\ Len(reminders) = 2

\* C7: whenever load_state fails on an existing file (no JSON, or applying
\* it raises), the file is renamed to a quarantine path, a notification is
\* sent, and the state after the load is empty: no tasks, no time logs, no
\* reminders, no active timer, next_task_id = 1.
C7_FailedLoadStartsEmpty ==
    (alive /\ last.op = "init" /\ last.load = "failed") =>
        /\ disk.canon = Absent
        /\ \E c \in disk.corrupt : c.file = last.file
        /\ \E i \in 1..Len(last.notes) : last.notes[i] = "Tracker data quarantined"
        /\ tasks = <<>> /\ time_logs = <<>> /\ reminders = <<>>
        /\ active_timer = None
        /\ next_task_id = Some(1)

\* the entries the last operation appended to the ledger
Appended ==
    SubSeq(time_logs, Len(time_logs) - last.appended + 1, Len(time_logs))

\* C8: every entry stop_timer appends starts and ends on one local calendar
\* day (an end at the following local midnight is the bound of that day) and
\* has duration > 0.
C8_EntriesWithinOneDay ==
    (alive /\ last.op = "stop_timer") =>
        \A i \in 1..Len(Appended) :
            LET s == FromIso(Appended[i].start)
                e == FromIso(Appended[i].end)
            IN  /\ Appended[i].duration > 0
                /\ \/ DateOf(e) = DateOf(s)
                   \/ e = Midnight(DateOf(s) + 1)

\* C8 witness: stop_timer logged a session that crossed a midnight, as one
\* entry up to the midnight and one from it.
C8_Witness ==
    /\ alive
    /\ last.op = "stop_timer" /\ last.appended = 2
    /\ FromIso(Appended[1].start) < Day
    /\ Appended[1].end = Iso(Day)
    /\ Appended[2].start = Iso(Day)
    /\ FromIso(Appended[2].end) > Day

\* C9: the entries one stop_timer call appends follow each other, each but
\* the last ending at a local midnight at which the next one starts, and
\* their durations sum to the elapsed seconds of the session.
C9_SplitSumsToElapsed ==
    (alive /\ last.op = "stop_timer" /\ last.appended > 0) =>
        /\ \A i \in 1..(Len(Appended) - 1) :
              /\ FromIso(Appended[i].end) % Day = 0
              /\ Appended[i + 1].start = Appended[i].end
        /\ SumDur(Appended) = Min(last.elapsed, max_session_sec)

\* C10: the durations of the entries one stop_timer call appends sum to at
\* most 57600 seconds.
C10_SessionAtMost16h ==
    (alive /\ last.op = "stop_timer") => SumDur(Appended) <= max_session_sec

\* C11: when stop_timer at time now logs a session of elapsed E, 1 < E and
\* E within the 16 hours, the first appended entry starts at now - E, the
\* last one ends at now and no appended entry ends after now, for a Paused
\* timer and for a Running one that was paused and resumed before.
C11_LoggedIntervalEndsNow ==
    (/\ alive
     /\ last.op = "stop_timer"
     /\ last.appended > 0
     /\ last.elapsed <= max_session_sec) =>
        /\ Appended[1].start = Iso(now - last.elapsed)
        /\ Appended[Len(Appended)].end = Iso(now)
        /\ \A i \in 1..Len(Appended) : FromIso(Appended[i].end) <= now

\* C12: a tick of a Running timer that finds more than 3600 seconds passed
\* since the previous tick moves start_time forward, so that the elapsed
\* time after it is at most 3600 seconds above the elapsed time at the
\* previous tick, and sends a notification.
C12_GapCreditsAtMostCap ==
    [][(/\ alive
        /\ last'.op = "tick"
        /\ Running(active_timer)
        /\ last_tick_time # None
        /\ now - Val(last_tick_time) > idle_cap) =>
           /\ last'.notes = <<"Tracker paused gap trimmed">>
           /\ Running(active_timer')
           /\ FromIso(Val(Val(active_timer').start_time))
                  > FromIso(Val(Val(active_timer).start_time))
           /\ LiveElapsed(active_timer', now)
                  <= LiveElapsed(active_timer, Val(last_tick_time)) + idle_cap
      ]_vars

\* C12 witness: a tick has just trimmed a gap of 7200 seconds that followed
\* 1200 seconds of running: 3600 seconds are left since start_time.
C12_Witness ==
    /\ alive
    /\ last.op = "tick" /\ last.notes # <<>>
    /\ Running(active_timer)
    /\ credited = 1200 + idle_cap
    /\ LiveElapsed(active_timer, now) = idle_cap

\* C13: the session stop_timer finalizes is credited at most 3600 seconds
\* of any interval in which the host was suspended while the timer was
\* Running, whatever comes first after the suspend (a tick, pause_timer,
\* stop_timer or a restart): its elapsed time is at most the time that
\* passed with the timer Running, each clock step counted up to 3600 s.
C13_SuspendCreditsAtMostCap ==
    (alive /\ last.op = "stop_timer") => last.elapsed <= credited

\* C14: a restart that loads an active timer with start_time set leaves the
\* engine Running with a tick armed, and when more than 3600 seconds passed
\* between the last tick of the process before and the restart, the first
\* tick of the new process (the one start_timer_loop runs) has moved
\* start_time to now - 3600.
C14_ResumeClampsOnFirstTick ==
    [][(/\ alive
        /\ last'.op = "init"
        /\ Running(active_timer')
        /\ last_tick_time # None
        /\ now - Val(last_tick_time) > idle_cap) =>
           /\ is_timer_running'
           /\ timer_source_id' # None
           /\ Val(active_timer').start_time = Some(Iso(now - idle_cap))
      ]_vars

\* the tick sources of the main loop that are still armed
ArmedTicks(srcs) == {x \in srcs : x.kind = "tick"}

\* C15: pause_timer on a Running timer adds now - start_time to the
\* accumulated elapsed, clears start_time, keeps the task id, cancels the
\* tick and appends no log entry; on a Paused or Idle engine it changes
\* neither the active timer nor the ledger.
C15_PauseFreezesElapsed ==
    [][(alive /\ last'.op = "pause_timer") =>
           /\ time_logs' = time_logs
           /\ IF Running(active_timer)
              THEN /\ active_timer' =
                        Some([task_id |-> Val(active_timer).task_id,
                              start_time |-> None,
                              elapsed |-> Val(active_timer).elapsed + now
                                  - FromIso(Val(Val(active_timer).start_time))])
                   /\ timer_source_id' = None
                   /\ ArmedTicks(sources') = {}
                   /\ ~is_timer_running'
              ELSE active_timer' = active_timer
      ]_vars

\* C15 witness: pause_timer has just frozen a timer that had been paused
\* and resumed before: 1200 seconds from each of the two runs.
C15_Witness ==
    /\ alive
    /\ last.op = "pause_timer"
    /\ active_timer # None
    /\ Val(active_timer).start_time = None
    /\ Val(active_timer).elapsed = 2400
    /\ credited = 2400
    /\ timer_source_id = None

\* C16: start_timer with a valid task selected takes an Idle or Paused
\* engine to Running with start_time = now and a tick armed: from Idle with
\* accumulated elapsed 0, from Paused with the accumulated elapsed it had.
\* With no valid task selected it changes nothing.
C16_StartRunsFromNow ==
    [][/\ (alive /\ last'.op = "start_timer" /\ ~Running(active_timer)) =>
           /\ Running(active_timer')
           /\ Val(active_timer').start_time = Some(Iso(now))
           /\ Val(active_timer').task_id = tasks[combo_active + 1].id
           /\ Val(active_timer').elapsed =
                  (IF active_timer = None THEN 0
                                          ELSE Val(active_timer).elapsed)
           /\ is_timer_running'
           /\ ArmedTicks(sources') # {}
       /\ (alive /\ last'.op = "start_timer ignored") =>
           /\ combo_active < 0 \/ combo_active >= Len(tasks)
           /\ UNCHANGED <<mem_vars, disk>>
      ]_vars

\* C16 witness: start_timer has just resumed a timer paused at 1200 seconds.
C16_Witness ==
    /\ alive
    /\ last.op = "start_timer"
    /\ Running(active_timer)
    /\ Val(active_timer).start_time = Some(Iso(now))
    /\ Val(active_timer).elapsed = 1200

\* s is a prefix of t
IsPrefix(s, t) == Len(s) <= Len(t) /\ SubSeq(t, 1, Len(s)) = s

\* C17: stop_timer always ends Idle, with no active timer and the tick
\* cancelled.  From Idle it leaves tasks, time logs and reminders as they
\* were; from Running or Paused it appends entries only when the elapsed
\* time is above 1 second, and nothing at 1 second or less.
C17_StopEndsIdle ==
    [][(alive /\ last'.op = "stop_timer") =>
           /\ active_timer' = None
           /\ timer_source_id' = None
           /\ ArmedTicks(sources') = {}
           /\ ~is_timer_running'
           /\ IsPrefix(time_logs, time_logs')
           /\ active_timer = None =>
                  UNCHANGED <<tasks, time_logs, reminders>>
           /\ (active_timer # None /\ LiveElapsed(active_timer, now) <= 1) =>
                  time_logs' = time_logs
      ]_vars

\* C17 witness: stop_timer has just discarded a timer that ran for 1 second
\* and logged nothing.
C17_Witness ==
    /\ alive
    /\ last.op = "stop_timer"
    /\ last.elapsed = 1 /\ last.appended = 0
    /\ credited = 1
    /\ active_timer = None /\ timer_source_id = None
    /\ time_logs = <<>>

\* C18: in every state after construction, also right after loading a file
\* whose active timer names a missing task, an active timer that is present
\* names the id of a task that exists.
C18_ActiveTimerNamesTask ==
    (alive /\ active_timer # None) =>
        /\ "task_id" \in DOMAIN Val(active_timer)
        /\ \E i \in 1..Len(tasks) : tasks[i].id = Val(active_timer).task_id

\* C18 witness: the tracker has just been constructed from the file whose
\* timer names the missing task 2, and has dropped that timer.
C18_Witness ==
    /\ alive
    /\ last.op = "init" /\ last.load = "loaded"
    /\ last.file = FileDangling
    /\ last.notes = <<"Tracker">>
    /\ active_timer = None /\ ~is_timer_running
    /\ Len(tasks) = 1

\* C19: del_task(t) removes and changes no log entry.  When t is the task
\* of the active timer and more than 1 second has elapsed, the timer is
\* stopped and the entries of the elapsed time, with task id t, are in the
\* ledger when del_task returns; when t is not the timed task the active
\* timer stays as it was.  (t is the timed task exactly when that task is
\* gone after the step.)
C19_DeleteKeepsLedger ==
    [][(alive /\ alive' /\ last'.op = "del_task") =>
           /\ IsPrefix(time_logs, time_logs')
           /\ (/\ active_timer # None
               /\ ~HasTask(tasks', Val(active_timer).task_id)
               /\ LiveElapsed(active_timer, now) > 1) =>
                  /\ active_timer' = None
                  /\ Len(time_logs') > Len(time_logs)
                  /\ \A i \in (Len(time_logs) + 1)..Len(time_logs') :
                         time_logs'[i].task_id = Val(active_timer).task_id
           /\ (/\ active_timer # None
               /\ HasTask(tasks', Val(active_timer).task_id)) =>
                  active_timer' = active_timer
      ]_vars

\* C19 witness: del_task has just deleted task 1 while it was timed for
\* 1200 seconds: the entry is in the ledger behind the older one, and no
\* task and no timer are left.
C19_Witness ==
    /\ alive
    /\ last.op = "del_task" /\ last.appended = 1
    /\ Len(time_logs) = 2
    /\ time_logs[1] = LogRec(2, 0, 600)
    /\ time_logs[2].task_id = 1 /\ time_logs[2].duration = 1200
    /\ tasks = <<>>
    /\ active_timer = None

\* C20: within one process the ledger only grows at its end: in every step
\* the time logs before are a prefix of the time logs after, and only a
\* stop_timer call (that of the handler, or the one del_task makes for the
\* timed task) adds entries.
C20_LedgerAppendOnly ==
    [][(alive /\ alive' /\ last'.op # "init") =>
           /\ IsPrefix(time_logs, time_logs')
           /\ time_logs' # time_logs =>
                  /\ last'.op \in {"stop_timer", "del_task"}
                  /\ active_timer # None /\ active_timer' = None
      ]_vars

\* C20 witness: stop_timer has just appended a 1200-second entry of task 1
\* behind the entry the ledger was loaded with.
C20_Witness ==
    /\ alive
    /\ last.op = "stop_timer" /\ last.appended = 1
    /\ Len(time_logs) = 2
    /\ time_logs[1] = LogRec(2, 0, 600)
    /\ time_logs[2] = LogRec(1, Noon, Noon + 1200)

\* C21: the "Task Complete!" notification is sent once: an inc_task call
\* made when every task already has done equal to its units sends no
\* notification.
C21_CompletedNotifiedOnce ==
    [][(/\ alive
        /\ last'.op = "inc_task"
        /\ \A i \in 1..Len(tasks) : tasks[i].done = tasks[i].units)
           => last'.notes = <<>>]_vars

\* the reminder with id rid of the memory
ReminderOf(rid) == Val(Found(reminders, rid))

\* the target the priority rule gives the reminder r at time t: a snooze in
\* the future, else a stored next_fire_at in the future, else the base target
Chosen(r, t) ==
    IF r.snoozed_until # None /\ FromIso(Val(r.snoozed_until)) > t
    THEN FromIso(Val(r.snoozed_until))
    ELSE IF r.next_fire_at # None /\ FromIso(Val(r.next_fire_at)) > t
    THEN FromIso(Val(r.next_fire_at))
    ELSE IF r.is_relative THEN t + r.time_hours
    ELSE IF (t \div Day) * Day + r.time_hours > t
    THEN (t \div Day) * Day + r.time_hours
    ELSE (t \div Day) * Day + r.time_hours + Day

\* C22: schedule_reminder on an enabled reminder sets next_fire_at to the
\* snooze time when snoozed_until is in the future, else to the stored
\* next_fire_at when that is in the future, else to the base target (now +
\* time_hours for a relative reminder, the next occurrence of the time of
\* day for an absolute one), for the call every handler and fire() make on
\* one reminder and for the calls start-up makes on the loaded reminders.
C22_TargetByPriority ==
    /\ (alive /\ last.arg # None /\ Val(last.arg).enabled) =>
           ReminderOf(last.rid).next_fire_at =
               Some(Iso(Chosen(Val(last.arg), now)))
    /\ (alive /\ last.op = "init" /\ last.load = "loaded") =>
           /\ Len(reminders) = Len(last.file.doc.reminders)
           /\ \A i \in 1..Len(reminders) :
                  reminders[i].enabled =>
                      reminders[i].next_fire_at =
                          Some(Iso(Chosen(last.file.doc.reminders[i], now)))

\* C22 witness: a snooze of 10 minutes was scheduled over a stored
\* next_fire_at that lay further in the future, and the snooze time won.
C22_Witness ==
    /\ alive
    /\ last.op = "snooze_reminder" /\ last.arg # None
    /\ Val(last.arg).enabled
    /\ Val(last.arg).next_fire_at # None
    /\ FromIso(Val(Val(last.arg).next_fire_at)) > now + 600
    /\ ReminderOf(last.rid).next_fire_at = Some(Iso(now + 600))

\* C23: a relative reminder with time_hours = h added at time T gets
\* next_fire_at = T + h, and a process started before T + h on the file that
\* holds this reminder keeps exactly that next_fire_at.
C23_CountdownSurvivesRestart ==
    /\ (alive /\ last.op = "add_reminder"
              /\ ReminderOf(last.rid).is_relative) =>
           /\ ReminderOf(last.rid).created = Iso(now)
           /\ ReminderOf(last.rid).next_fire_at =
                  Some(Iso(now + ReminderOf(last.rid).time_hours))
    /\ (alive /\ last.op = "init" /\ last.load = "loaded") =>
           \A i \in 1..Len(last.file.doc.reminders) :
               LET f == last.file.doc.reminders[i]
               IN  (/\ f.is_relative
                    /\ f.next_fire_at =
                           Some(Iso(FromIso(f.created) + f.time_hours))
                    /\ now < FromIso(f.created) + f.time_hours) =>
                       reminders[i].next_fire_at = f.next_fire_at

\* C23 witness: a 15-minute reminder was added at noon and the process was
\* started again 10 minutes later; it still fires at 12:15.
C23_Witness ==
    /\ alive
    /\ last.op = "init" /\ last.load = "loaded"
    /\ now = Noon + 600
    /\ Len(reminders) = 1
    /\ reminders[1].is_relative /\ reminders[1].enabled
    /\ reminders[1].created = Iso(Noon)
    /\ reminders[1].time_hours = 900
    /\ reminders[1].next_fire_at = Some(Iso(Noon + 900))
    /\ \E s \in sources : s.kind = "fire" /\ s.rid = 1 /\ s.due = Noon + 900

\* C24: when schedule_reminder is called on an enabled absolute reminder
\* that has no snooze and no stored next_fire_at in the future, next_fire_at
\* becomes today at the reminder's time of day when that is strictly after
\* now, else the same time tomorrow, and it is always strictly after now.
C24_AbsoluteNextOccurrence ==
    (/\ alive
     /\ last.arg # None
     /\ Val(last.arg).enabled
     /\ ~Val(last.arg).is_relative
     /\ ~(/\ Val(last.arg).snoozed_until # None
          /\ FromIso(Val(Val(last.arg).snoozed_until)) > now)
     /\ ~(/\ Val(last.arg).next_fire_at # None
          /\ FromIso(Val(Val(last.arg).next_fire_at)) > now)) =>
        LET today == Midnight(DateOf(now)) + Val(last.arg).time_hours
            nfa == FromIso(Val(ReminderOf(last.rid).next_fire_at))
        IN  /\ nfa = (IF today > now THEN today ELSE today + Day)
            /\ nfa > now

\* the fire sources armed for the reminder rid
ArmedFor(rid) == {s \in sources : s.kind = "fire" /\ s.rid = rid}

\* C25: when the timer of a reminder fires, one "Reminder" notification is
\* sent, snoozed_until is cleared, next_fire_at becomes the base target
\* computed at the time of the fire (fire time + time_hours for a relative
\* reminder, the next occurrence of the time of day for an absolute one) and
\* one timer is armed for it.
C25_FireNotifiesAndRearms ==
    (alive /\ last.op = "fire") =>
        LET r == ReminderOf(last.rid)
            today == Midnight(DateOf(now)) + r.time_hours
            base == IF r.is_relative THEN now + r.time_hours
                    ELSE IF today > now THEN today ELSE today + Day
        IN  /\ last.notes = <<"Reminder">>
            /\ r.snoozed_until = None
            /\ r.next_fire_at = Some(Iso(base))
            /\ last.rid \in DOMAIN reminder_source_ids
            /\ ArmedFor(last.rid) =
                   {[id |-> reminder_source_ids[last.rid], kind |-> "fire",
                     rid |-> last.rid, due |-> now + Max(1, base - now)]}

\* C25 witness: the 15-minute reminder added at noon fired at 12:20 and is
\* armed again for 12:35.
C25_Witness ==
    /\ alive
    /\ last.op = "fire"
    /\ now = Noon + 1200
    /\ Val(last.before).next_fire_at = Some(Iso(Noon + 900))
    /\ ReminderOf(last.rid).is_relative
    /\ ReminderOf(last.rid).next_fire_at = Some(Iso(Noon + 2100))
    /\ \E s \in ArmedFor(last.rid) : s.due = Noon + 2100

\* C26: a reminder never fires before its next_fire_at.  Every enabled
\* reminder has exactly one timer armed, due not before its next_fire_at;
\* schedule_reminder arms it for max(1 second, target - now); fire() runs
\* only when the clock has reached next_fire_at; and once the clock has
\* reached the time a timer is due, fire() can run, and does run unless a
\* command on the reminder or a new start of the process comes first (after
\* which, by the first part, the reminder is armed again).
C26_FiresNotBeforeTarget ==
    /\ [](alive =>
        /\ \A i \in 1..Len(reminders) :
               reminders[i].enabled =>
                   /\ reminders[i].id \in DOMAIN reminder_source_ids
                   /\ \E s \in sources :
                          /\ ArmedFor(reminders[i].id) = {s}
                          /\ s.id = reminder_source_ids[reminders[i].id]
                          /\ s.due >= FromIso(Val(reminders[i].next_fire_at))
        /\ (last.arg # None /\ Val(last.arg).enabled) =>
               \A s \in ArmedFor(last.rid) :
                   s.due = now + Max(1,
                       FromIso(Val(ReminderOf(last.rid).next_fire_at)) - now)
        /\ last.op = "fire" =>
               now >= FromIso(Val(Val(last.before).next_fire_at))
        /\ (\E s \in sources : s.kind = "fire" /\ s.due <= now) =>
               ENABLED fire)
    /\ \A rid \in ReminderIds :
           (alive /\ \E s \in ArmedFor(rid) : s.due <= now)
               ~> \/ last.rid = rid /\ last.op \in
                         {"fire", "del_reminder", "toggle_reminder",
                          "snooze_reminder", "dismiss_reminder"}
                  \/ last.op = "init"

\* C26 witness: the clock stands at 12:20, past the 12:15 for which the
\* timer of an enabled reminder was armed; the timer is due.
C26_Witness ==
    /\ alive
    /\ last.op = "Advance"
    /\ now = Noon + 1200
    /\ Len(reminders) = 1 /\ reminders[1].enabled
    /\ reminders[1].next_fire_at = Some(Iso(Noon + 900))
    /\ \E s \in ArmedFor(reminders[1].id) : s.due = Noon + 900

\* C27: toggle_reminder on an enabled reminder disables it, cancels its
\* armed timer and keeps its name, time_hours and is_relative; del_reminder
\* removes the reminder and its timer; no timer is ever armed for a reminder
\* that is disabled or deleted, and every "Reminder" notification is that of
\* a reminder that was listed and enabled.
C27_DisabledStaysSilent ==
    alive =>
        /\ (/\ last.op = "toggle_reminder"
            /\ last.before # None
            /\ Val(last.before).enabled) =>
               /\ ~ReminderOf(last.rid).enabled
               /\ ArmedFor(last.rid) = {}
               /\ last.rid \notin DOMAIN reminder_source_ids
               /\ ReminderOf(last.rid).name = Val(last.before).name
               /\ ReminderOf(last.rid).time_hours = Val(last.before).time_hours
               /\ ReminderOf(last.rid).is_relative =
                      Val(last.before).is_relative
        /\ last.op = "del_reminder" =>
               /\ Found(reminders, last.rid) = None
               /\ ArmedFor(last.rid) = {}
        /\ \A s \in sources :
               s.kind = "fire" =>
                   /\ Found(reminders, s.rid) # None
                   /\ ReminderOf(s.rid).enabled
        /\ last.op = "fire" =>
               last.before # None /\ Val(last.before).enabled

\* C27 witness: the 15-minute reminder was disabled before 12:15; at 12:20
\* it is still listed with its time, and no timer is armed.
C27_Witness ==
    /\ alive
    /\ last.op = "Advance"
    /\ now = Noon + 1200
    /\ Len(reminders) = 1
    /\ ~reminders[1].enabled
    /\ reminders[1].time_hours = 900 /\ reminders[1].is_relative
    /\ reminders[1].next_fire_at = Some(Iso(Noon + 900))
    /\ sources = {}

\* C28: toggle_reminder on a disabled reminder that has no snooze in the
\* future enables it and re-arms it from the base rule: next_fire_at becomes
\* the base target computed at that time (now + time_hours for a relative
\* reminder, the next occurrence of the time of day for an absolute one),
\* whatever next_fire_at was stored.
C28_ReenableUsesBaseRule ==
    (/\ alive
     /\ last.op = "toggle_reminder"
     /\ last.before # None
     /\ ~Val(last.before).enabled
     /\ ~(/\ Val(last.before).snoozed_until # None
          /\ FromIso(Val(Val(last.before).snoozed_until)) > now)) =>
        LET r == ReminderOf(last.rid)
            today == Midnight(DateOf(now)) + r.time_hours
        IN  /\ r.enabled
            /\ r.next_fire_at =
                   Some(Iso(IF r.is_relative THEN now + r.time_hours
                            ELSE IF today > now THEN today ELSE today + Day))

\* C29: snooze_reminder(id, minutes), minutes > 0, on an enabled reminder
\* sets snoozed_until to now + minutes and next_fire_at to the same moment,
\* whatever next_fire_at was stored before, and arms the timer for it.
C29_SnoozeSetsTarget ==
    (/\ alive
     /\ last.op = "snooze_reminder"
     /\ last.before # None
     /\ Val(last.before).enabled) =>
        \E minutes \in SnoozeMinutes :
            /\ minutes > 0
            /\ ReminderOf(last.rid).snoozed_until =
                   Some(Iso(now + minutes * 60))
            /\ ReminderOf(last.rid).next_fire_at =
                   Some(Iso(now + minutes * 60))
            /\ \E s \in sources :
                   ArmedFor(last.rid) = {s} /\ s.due = now + minutes * 60

\* C29 witness: at 12:10 the reminder due at 12:15 was snoozed for 10
\* minutes; it is due at 12:20.
C29_Witness ==
    /\ alive
    /\ last.op = "snooze_reminder"
    /\ now = Noon + 600
    /\ last.before # None
    /\ Val(last.before).enabled
    /\ Val(last.before).next_fire_at = Some(Iso(Noon + 900))
    /\ ReminderOf(last.rid).snoozed_until = Some(Iso(Noon + 1200))
    /\ ReminderOf(last.rid).next_fire_at = Some(Iso(Noon + 1200))

\* C30: dismiss_reminder on an enabled reminder that is snoozed (its
\* snoozed_until in the future) clears snoozed_until and falls back to the
\* base rule: next_fire_at is the base target computed at the time of the
\* dismissal (now + time_hours for a relative reminder, the next occurrence
\* of the time of day for an absolute one) and no longer the snooze time.
C30_DismissUsesBaseRule ==
    (/\ alive
     /\ last.op = "dismiss_reminder"
     /\ last.before # None
     /\ Val(last.before).enabled
     /\ Val(last.before).snoozed_until # None
     /\ FromIso(Val(Val(last.before).snoozed_until)) > now) =>
        LET r == ReminderOf(last.rid)
            today == Midnight(DateOf(now)) + r.time_hours
        IN  /\ r.snoozed_until = None
            /\ r.next_fire_at =
                   Some(Iso(IF r.is_relative THEN now + r.time_hours
                            ELSE IF today > now THEN today ELSE today + Day))
            /\ r.next_fire_at # Val(last.before).snoozed_until

\* C31: cancelling is idempotent.  In every state, for the id of every
\* listed reminder and for an id that never was armed, cancel_reminder_timer
\* called twice gives what one call gives, it leaves sources and handles as
\* they are when no handle is held for the id, and afterwards no handle is
\* held; the same for the cancelling of the tick source in pause_timer and
\* stop_timer.
C31_CancelIdempotent ==
    alive =>
        /\ \A rid \in {reminders[i].id : i \in 1..Len(reminders)} \cup {0} :
               LET c == cancel_reminder_timer(sources, reminder_source_ids, rid)
               IN  /\ cancel_reminder_timer(c.sources, c.rsi, rid) = c
                   /\ rid \notin DOMAIN c.rsi
                   /\ rid \notin DOMAIN reminder_source_ids =>
                          c = [sources |-> sources,
                               rsi |-> reminder_source_ids]
        /\ cancel_tick(cancel_tick(Cur)) = cancel_tick(Cur)
        /\ cancel_tick(Cur).timer_source_id = None
        /\ timer_source_id = None => cancel_tick(Cur) = Cur

\* C31 witness: stop_timer has just run on a stopped stopwatch (no handle
\* held) while the timer of reminder 1 is armed: the sources are those of
\* before.
C31_Witness ==
    /\ alive
    /\ last.op = "stop_timer" /\ last.elapsed = 0 /\ last.appended = 0
    /\ timer_source_id = None
    /\ 1 \in DOMAIN reminder_source_ids
    /\ \E s \in sources : s.kind = "fire" /\ s.rid = 1

\* the last step was a handler whose save_state raised and printed
SaveFailed == alive /\ last.notes # <<>>
                    /\ last.notes[Len(last.notes)] = "Save error"

\* C32: a save_state that fails is not fatal and is not retried: the
\* process lives on and the handler that called it has returned, the
\* canonical file still is the file of the last save_state that finished
\* (never a partial one), and the memory is kept: the handler's result stays
\* in memory though not on disk, and a handler whose save_state finishes
\* writes all of the memory.
C32_FailedSaveNotFatal ==
    /\ SaveFailed =>
           /\ last.op \in {"add_task", "del_task", "update_ui"}
           /\ disk.canon = committed
           /\ disk.canon.kind # "partial"
           /\ last.op = "add_task" =>
                  /\ tasks # <<>>
                  /\ tasks[Len(tasks)].created = Iso(now)
    /\ (alive /\ ~SaveFailed
              /\ last.op \in {"add_task", "del_task", "update_ui"}) =>
           /\ disk.canon = json_dump(Data)
           /\ committed = disk.canon

\* C32 witness: the save of add_task failed at the rename: task 2 is in
\* memory, the canonical file still holds task 1 alone and the temp file
\* holds the new document.
C32_Witness ==
    /\ SaveFailed
    /\ last.op = "add_task"
    /\ Len(tasks) = 2
    /\ disk.canon = FileOneTask
    /\ disk.tmp = json_dump(Data)

\* C33: start_timer on a Paused timer while another task is selected puts
\* the selected task's id on the active timer and keeps the accumulated
\* elapsed; and stop_timer logs every entry of the session under the task id
\* the timer then names, the durations summing to the whole elapsed of the
\* session (time accrued under an earlier task included).
C33_ResumeReassignsTask ==
    [][/\ (/\ alive /\ last'.op = "start_timer"
           /\ active_timer # None /\ ~Running(active_timer)) =>
              /\ Val(active_timer').task_id = tasks[combo_active + 1].id
              /\ Val(active_timer').elapsed = Val(active_timer).elapsed
              /\ Running(active_timer')
       /\ (/\ alive /\ last'.op = "stop_timer" /\ last'.appended > 0
           /\ last'.elapsed <= max_session_sec) =>
              /\ \A i \in (Len(time_logs) + 1)..Len(time_logs') :
                     time_logs'[i].task_id = Val(active_timer).task_id
              /\ SumDur(SubSeq(time_logs', Len(time_logs) + 1,
                               Len(time_logs'))) = last'.elapsed
              /\ last'.elapsed = SessionElapsed(active_timer, now)
      ]_vars

\* C33 witness: 20 minutes were timed on task 1 and the timer was paused;
\* task 2 was selected and start_timer has just put task 2 on the timer with
\* the 20 minutes kept.
C33_Witness ==
    /\ alive
    /\ last.op = "start_timer"
    /\ last.before = Some([task_id |-> 1, start_time |-> None,
                           elapsed |-> 1200])
    /\ active_timer = Some([task_id |-> 2, start_time |-> Some(Iso(now)),
                            elapsed |-> 1200])
    /\ selected_task_id = Some(2)
    /\ time_logs = <<>>

\* C34: in every state of a live process the three views of the stopwatch
\* agree: is_timer_running is true exactly when an active timer exists with
\* start_time set, a tick source is armed exactly then, it is the one whose
\* handle timer_source_id holds, and never more than one is armed.
C34_StopwatchViewsAgree ==
    alive =>
        /\ is_timer_running <=> Running(active_timer)
        /\ ArmedTicks(sources) # {} <=> Running(active_timer)
        /\ Cardinality(ArmedTicks(sources)) <= 1
        /\ timer_source_id # None <=> Running(active_timer)
        /\ \A s \in ArmedTicks(sources) : timer_source_id = Some(s.id)

\* C34 witness: a process was started on a file with a Running timer; it
\* runs again, with one tick source armed.
C34_Witness ==
    /\ alive
    /\ last.op = "init" /\ last.load = "loaded"
    /\ Running(active_timer)
    /\ is_timer_running
    /\ Cardinality(ArmedTicks(sources)) = 1

\* C35: in every state of a live process (after construction, after every
\* reminder operation and after every fire callback) a one-shot timer is
\* armed for a reminder id exactly when a reminder with that id is listed
\* and enabled, at most one timer is armed per id, and the handles held are
\* those of the armed timers.
C35_ArmedIffEnabled ==
    alive =>
        LET enabled_ids == {reminders[i].id :
                               i \in {j \in 1..Len(reminders) :
                                          reminders[j].enabled}}
            armed_ids == {s.rid : s \in {x \in sources : x.kind = "fire"}}
        IN  /\ armed_ids = enabled_ids
            /\ \A rid \in armed_ids : Cardinality(ArmedFor(rid)) = 1
            /\ DOMAIN reminder_source_ids = enabled_ids
            /\ \A rid \in enabled_ids :
                   \E s \in ArmedFor(rid) : s.id = reminder_source_ids[rid]

\* C35 witness: del_reminder has just removed an enabled reminder whose
\* timer was armed; no reminder and no timer is left.
C35_Witness ==
    /\ alive
    /\ last.op = "del_reminder"
    /\ last.before # None /\ Val(last.before).enabled
    /\ reminders = <<>>
    /\ sources = {}
    /\ reminder_source_ids = <<>>

\* C36: every entry stop_timer appends has duration = end - start, also
\* when the elapsed of the session was clamped to 16 hours.
C36_EntryDurationIsEndMinusStart ==
    (alive /\ last.op = "stop_timer" /\ last.appended > 0) =>
        \A i \in 1..Len(Appended) :
            Appended[i].duration =
                FromIso(Appended[i].end) - FromIso(Appended[i].start)

\* C37: while the timer stays Running, the elapsed time a tick computes is
\* never below the elapsed time the tick before it computed: trimming an
\* idle gap takes away nothing that was credited before the gap.
C37_TickElapsedNeverDecreases ==
    [][(/\ alive
        /\ last'.op = "tick"
        /\ Running(active_timer)
        /\ Running(active_timer')
        /\ last_tick_time # None) =>
           LiveElapsed(active_timer', now)
               >= LiveElapsed(active_timer, Val(last_tick_time))
      ]_vars

\* C38: the accumulated elapsed of the active timer is never negative, also
\* when the wall clock was set back between start_timer and pause_timer.
C38_ElapsedNeverNegative ==
    (alive /\ active_timer # None) => Get(Val(active_timer), "elapsed", 0) >= 0

\* the id sel is None or that of a task of tk
SelectedExists(sel, tk) ==
    sel = None \/ \E i \in 1..Len(tk) : tk[i].id = Val(sel)

\* C39: selected_task_id is None or the id of a task that exists, in memory
\* and in the state file the program wrote.
C39_SelectedTaskExists ==
    alive =>
        /\ SelectedExists(selected_task_id, tasks)
        /\ disk.canon.kind = "json" =>
               SelectedExists(disk.canon.doc.selected_task_id,
                              disk.canon.doc.tasks)

\* C40: the save deferred by inc_task and dec_task writes the tracker as it
\* is in memory when the callback runs, every write to the state file is
\* that of the memory of its moment, and without a crash every increment
\* and decrement is eventually in the file.
C40_DeferredSaveWritesCurrent ==
    /\ []((alive /\ last.op = "update_ui") => disk.canon = json_dump(Data))
    /\ [][disk'.canon # disk.canon => disk'.canon = json_dump(Data')]_vars
    /\ (alive /\ last.op \in {"inc_task", "dec_task"})
           ~> (disk.canon = json_dump(Data))

\* C40 witness: the callback has written a file that holds an increment
\* and a task added after it.
C40_Witness ==
    /\ alive
    /\ last.op = "update_ui"
    /\ Len(tasks) = 2
    /\ tasks[1].done > 0
    /\ tasks[2].done = 0
    /\ disk.canon = json_dump(Data)

====
